---------------------------- MODULE Spec2Model ----------------------------
(***************************************************************************)
(* CS108 RFID reader protocol handling (src/cs108.ts).                     *)
(*                                                                         *)
(* A hex string of the source is a sequence of hex digits, each digit its  *)
(* value 0..15, so that the character offsets of the source (substring(6,  *)
(* 8), substring(36), ...) are kept as they are written.  A base64 value   *)
(* exchanged with the transport is the sequence of bytes (0..255) that it  *)
(* encodes.                                                                *)
(***************************************************************************)
EXTENDS Integers, Sequences, FiniteSets, TLC

VARIABLES
    currentDataStream,   \* the module-level reassembly buffer (hex string)
    pc,                  \* position inside processCS108Data; "idle" between calls
    decodedValue,        \* the frame of the call in progress (or the last call)
    writeCharacteristic, \* TRUE iff the call was given a write characteristic
    tagReadPayload,      \* the loop variable of processTagData
    bufBefore,           \* buffer at the entry of the call
    flushed,             \* buffer handed to the extractor by this call, or NoFlush
    emitted,             \* tag records logged by this call, in order
    flushError,          \* message of the error caught by this call, or "none"
    raised,              \* TRUE iff an error escaped the call
    sent,                \* writes initiated by this call, in order
    readPos,             \* ranges of character positions of the frame read by this call
    inflight,            \* writes initiated and not yet completed
    chunks,              \* continuation chunks appended since the buffer was last set
    call,                \* the exported function called last, "none" at the start
    commands,            \* commands handed to SendCommand by this call, in order
    script,              \* frames still to be delivered (scripted runs only)
    delivered,           \* frames delivered so far (scripted runs only)
    opcode               \* opcode under encoding (round-trip runs only)

vars == <<currentDataStream, pc, decodedValue, writeCharacteristic, tagReadPayload,
          bufBefore, flushed, emitted, flushError, raised, sent, readPos, inflight,
          chunks, call, commands, script, delivered, opcode>>

---------------------------------------------------------------------------
(* Bounds of the model *)

\* continuation chunks appended to one batch
MaxChunks == 2

\* outbound writes outstanding when a frame is accepted
MaxInFlight == 2

\* length in bytes of the arbitrary opcodes of the round-trip runs
MaxOpcodeLen == 3

---------------------------------------------------------------------------
(* Constants of src/cs108.ts *)

NOTIFICATION_TRIGGER_PUSHED == <<10, 1, 0, 2>>
NOTIFICATION_TRIGGER_RELEASED == <<10, 1, 0, 3>>
EVENT_CODE_TAG_READ == <<8, 1, 0, 0>>

PREFIX == <<10, 7>>
CONNECTION == <<11, 3>>
DESTINATION_RFID == <<12, 2>>
DESTINATION_NOTIFICATION == <<13, 9>>
RESERVED == <<8, 2>>
DIRECTION_Downlink == <<13, 9>>
DIRECTION_Uplink == <<9, 14>>
DOWNLINK_CRC1 == <<0, 0>>
DOWNLINK_CRC2 == <<0, 0>>
DOWNLINK_PAYLOAD_LENGTH == <<0, 10>>

defaultCommandHeader ==
    PREFIX \o CONNECTION \o DOWNLINK_PAYLOAD_LENGTH \o DESTINATION_RFID \o RESERVED
        \o DIRECTION_Downlink \o DOWNLINK_CRC1 \o DOWNLINK_CRC2

RFID_COMMAND == <<8, 0, 0, 2>>

TURN_ON_RFID == <<8, 0, 0, 0>>
ANT_PORT_SEL == RFID_COMMAND \o <<7,0,0,1,0,1,0,7,0,0,0,0,0,0,0,0>>
ANT_PORT_POWER == RFID_COMMAND \o <<7,0,0,1,0,6,0,7,2,12,0,1,0,0,0,0>>
USE_CURRENT_PROFILE == RFID_COMMAND \o <<7,0,0,1,6,0,0,11,0,1,0,0,0,0,0,0>>
ENABLE_PROFILE == RFID_COMMAND \o <<7,0,0,1,0,0,15,0,1,9,0,0,0,0,0,0>>
ANT_CYCLES == RFID_COMMAND \o <<7,0,0,1,0,0,0,7,15,15,15,15,0,0,0,0>>
QUERY_CFG == RFID_COMMAND \o <<7,0,0,1,0,0,0,9,2,0,0,0,0,0,0,0>>
INV_SEL == RFID_COMMAND \o <<7,0,0,1,0,2,0,9,0,3,0,0,0,0,0,0>>
INV_ALG_PARM_0 == RFID_COMMAND \o <<7,0,0,1,0,3,0,9,15,6,4,0,0,0,0,0>>
INV_ALG_PARM_1 == RFID_COMMAND \o <<7,0,0,1,0,4,0,9,0,0,0,0,0,0,0,0>>
INV_ALG_PARM_2 == RFID_COMMAND \o <<7,0,0,1,0,5,0,9,0,1,0,0,0,0,0,0>>
INV_CFG == RFID_COMMAND \o <<7,0,0,1,0,1,0,9,0,3,0,0,0,4,0,4>>

START_INVENTORY == RFID_COMMAND \o <<7,0,0,1,0,0,15,0,0,15,0,0,0,0,0,0>>
ABORT_INVENTORY == RFID_COMMAND \o <<4,0,0,3,0,0,0,0,0,0,0,0,0,0,0,0>>

---------------------------------------------------------------------------
(* JavaScript strings and the helpers of ../utils *)

\* String.prototype.substring clamps an index greater than the length to the length
Clamp(s, i) ==
    IF i > Len(s) THEN Len(s) ELSE i

\* s.substring(a, b), 0 <= a <= b
substring(s, a, b) ==
    SubSeq(s, Clamp(s, a) + 1, Clamp(s, b))

\* s.substring(a)
substringFrom(s, a) ==
    SubSeq(s, Clamp(s, a) + 1, Len(s))

\* the (0-based) character positions s.substring(a, b) reads: from the first of the
\* pair up to, not including, the second
substringReads(s, a, b) ==
    <<Clamp(s, a), Clamp(s, b)>>

\* the value Number.NaN, and the value undefined
NaN == <<-1>>
undefined == <<-2>>

\* drop the leading zero digits of a digit string
RECURSIVE StripLeadingZeros(_)
StripLeadingZeros(h) ==
    IF h = <<>> THEN <<>>
    ELSE IF Head(h) = 0 THEN StripLeadingZeros(Tail(h))
    ELSE h

\* hexToNumber: the number a hex string denotes, as its hex numeral without leading
\* zeros (<<>> is zero); NaN for the empty string and for undefined
hexToNumber(h) ==
    IF h = undefined \/ h = <<>> THEN NaN ELSE StripLeadingZeros(h)

\* the integer a numeral of at most 7 digits denotes
RECURSIVE NumberValue(_)
NumberValue(n) ==
    IF n = <<>> THEN 0
    ELSE 16 * NumberValue(SubSeq(n, 1, Len(n) - 1)) + n[Len(n)]

\* !n of JavaScript for a number n: zero and NaN are falsy
IsFalsy(n) ==
    n = NaN \/ n = <<>>

\* a shift by one bit too many
ShiftRight_oneMore(n, k) ==
    n \div (2 ^ (k + 1))

\* n >> k for a non-negative 32-bit n
ShiftRight(n, k) ==
    n \div (2 ^ k)

\* hexToBase64: the bytes a hex string encodes, two digits per byte, high digit first
hexToBase64(h) ==
    [i \in 1 .. (Len(h) \div 2) |-> 16 * h[2 * i - 1] + h[2 * i]]

\* base64ToHex: the hex string of the bytes, two digits per byte
base64ToHex(value) ==
    [i \in 1 .. (2 * Len(value)) |->
        IF i % 2 = 1 THEN value[(i + 1) \div 2] \div 16 ELSE value[i \div 2] % 16]

---------------------------------------------------------------------------
(* Frame classification *)

\* isNotification reading the destination one byte too early
isNotification_byte2(value) ==
    substring(value, 4, 6) = DESTINATION_NOTIFICATION

isNotification(value) ==
    substring(value, 6, 8) = DESTINATION_NOTIFICATION

isRFID(value) ==
    substring(value, 6, 8) = DESTINATION_RFID

\* getPayload starting one byte too early
getPayload_byte7(value) ==
    substringFrom(value, 14)

getPayload(value) ==
    substringFrom(value, 16)

getEventCode(value) ==
    substring(value, 16, 20)

\* value.match(/[a-fA-F0-9]{2}/g): the successive pairs of digits, null when none
match2(value) ==
    [i \in 1 .. (Len(value) \div 2) |-> SubSeq(value, 2 * i - 1, 2 * i)]

RECURSIVE join(_)
join(parts) ==
    IF parts = <<>> THEN <<>> ELSE Head(parts) \o join(Tail(parts))

reverse(parts) ==
    [i \in 1 .. Len(parts) |-> parts[Len(parts) + 1 - i]]

\* a hex tag of eight bytes: substring(6, 22)
hexTagOf_eightBytes(value) ==
    LET reversedHex == substring(value, 6, 22)
        pairs == match2(reversedHex)
    IN  IF pairs = <<>> THEN undefined ELSE join(reverse(pairs))

\* the hex tag of an EPC: substring(6, 20), byte order reversed
hexTagOf(value) ==
    LET reversedHex == substring(value, 6, 20)
        pairs == match2(reversedHex)
    IN  IF pairs = <<>> THEN undefined ELSE join(reverse(pairs))

extractVIDFromEPC(value) ==
    hexToNumber(hexTagOf(value))

\* a SendCommand that writes without looking at the write characteristic
SendCommand_noGuard(command, wc) ==
    <<[command |-> command, value |-> hexToBase64(defaultCommandHeader \o command)]>>

\* the writes SendCommand initiates: none without a write characteristic
SendCommand(command, wc) ==
    IF ~wc THEN <<>>
    ELSE <<[command |-> command, value |-> hexToBase64(defaultCommandHeader \o command)]>>

---------------------------------------------------------------------------
(* Tag record extraction *)

\* extractTagData leaving the signal-strength byte in the remaining payload
extractTagData_keepRssi(payload) ==
    IF payload = <<>> \/ Len(payload) < 4
    THEN [error |-> "Invalid payload"]
    ELSE LET productCodeDecimal == hexToNumber(substring(payload, 0, 4))
         IN  IF IsFalsy(productCodeDecimal)
             THEN [error |-> "Invalid product code"]
             ELSE LET epcByteLength == ShiftRight(NumberValue(productCodeDecimal), 11) * 2
                  IN  [error |-> "none",
                       productCode |-> productCodeDecimal,
                       epc |-> substring(payload, 4, 4 + epcByteLength * 2),
                       rssi |-> hexToNumber(substring(payload, 4 + epcByteLength * 2,
                                                      4 + epcByteLength * 2 + 2)),
                       remainingPayload |-> substringFrom(payload, 4 + epcByteLength * 2)]

\* an extractor whose remainder starts at the identifier length, the product code and
\* the signal strength not counted
extractTagData_noAdvance(payload) ==
    IF payload = <<>> \/ Len(payload) < 4
    THEN [error |-> "Invalid payload"]
    ELSE LET productCodeDecimal == hexToNumber(substring(payload, 0, 4))
         IN  IF IsFalsy(productCodeDecimal)
             THEN [error |-> "Invalid product code"]
             ELSE LET epcByteLength == ShiftRight(NumberValue(productCodeDecimal), 11) * 2
                  IN  [error |-> "none",
                       productCode |-> productCodeDecimal,
                       epc |-> substring(payload, 4, 4 + epcByteLength * 2),
                       rssi |-> hexToNumber(substring(payload, 4 + epcByteLength * 2,
                                                      4 + epcByteLength * 2 + 2)),
                       remainingPayload |-> substringFrom(payload, epcByteLength * 2)]

extractTagData(payload) ==
    IF payload = <<>> \/ Len(payload) < 4
    THEN [error |-> "Invalid payload"]
    ELSE LET productCodeDecimal == hexToNumber(substring(payload, 0, 4))
         IN  IF IsFalsy(productCodeDecimal)
             THEN [error |-> "Invalid product code"]
             ELSE LET epcByteLength == ShiftRight(NumberValue(productCodeDecimal), 11) * 2
                  IN  [error |-> "none",
                       productCode |-> productCodeDecimal,
                       epc |-> substring(payload, 4, 4 + epcByteLength * 2),
                       rssi |-> hexToNumber(substring(payload, 4 + epcByteLength * 2,
                                                      4 + epcByteLength * 2 + 2)),
                       remainingPayload |-> substringFrom(payload, 4 + epcByteLength * 2 + 2)]

\* no catch clause: the error leaves processTagData and processCS108Data
processTagDataCatch_rethrow(error) ==
    [currentDataStream |-> currentDataStream, flushError |-> error, thrown |-> TRUE]

\* a catch clause that logs the error and leaves the buffer as it is
processTagDataCatch_keep(error) ==
    [currentDataStream |-> currentDataStream, flushError |-> error, thrown |-> FALSE]

\* what the catch clause of processTagData does with an error thrown in the loop:
\* it is logged, the buffer is cleared and the function returns normally
processTagDataCatch(error) ==
    [currentDataStream |-> <<>>, flushError |-> error, thrown |-> FALSE]

\* the record logged for one extracted tag ("VID: ", extractVIDFromEPC(epc))
LoggedRecord(r) ==
    [productCode |-> r.productCode, epc |-> r.epc, rssi |-> r.rssi,
     vid |-> extractVIDFromEPC(r.epc)]

\* a loop that collects the records and logs them only when the whole batch is good
extractTurn_discard(payload, log) ==
    LET r == extractTagData(payload)
    IN  IF r.error = "none"
        THEN [error |-> "none", emitted |-> Append(log, LoggedRecord(r)),
              tagReadPayload |-> r.remainingPayload]
        ELSE [error |-> r.error, emitted |-> <<>>, tagReadPayload |-> payload]

\* one turn of the loop of processTagData on a non-empty payload, log the records
\* logged so far: the record is logged and the payload advances, or the error is thrown
extractTurn(payload, log) ==
    LET r == extractTagData(payload)
    IN  IF r.error = "none"
        THEN [error |-> "none", emitted |-> Append(log, LoggedRecord(r)),
              tagReadPayload |-> r.remainingPayload]
        ELSE [error |-> r.error, emitted |-> log, tagReadPayload |-> payload]

\* the records the loop of processTagData logs for a payload, log the records logged
\* so far: the turns are taken until the payload is empty or a turn fails
RECURSIVE FlushLog(_, _)
FlushLog(payload, log) ==
    IF payload = <<>> THEN log
    ELSE LET t == extractTurn(payload, log)
         IN  IF t.error = "none" THEN FlushLog(t.tagReadPayload, t.emitted)
             ELSE t.emitted

\* the number of characters processTagData skips at the head of the buffer
TagReadPayloadOffset == 36

---------------------------------------------------------------------------
(* Inbound frames of the model (hex strings) *)

\* header of an uplink frame with destination code dest
UplinkHeader(dest) ==
    PREFIX \o CONNECTION \o <<0, 0>> \o dest \o RESERVED \o DIRECTION_Uplink \o <<0, 0, 0, 0>>

\* the head of the tag-read frame shown above processTagData:
\* A7B330C2259E994A 8100 04 00 0580 2600 00 00
TagReadHead ==
    <<10,7,11,3,3,0,12,2,2,5,9,14,9,9,4,10,8,1,0,0,0,4,0,0,0,5,8,0,2,6,0,0,0,0,0,0>>

\* tag sub-records: product code, identifier, signal strength
Rec0 == <<0,0,0,1,6,0>>
Rec2 == <<0,8,0,0,0,1,8,2,6,0>>
Rec2b == <<0,8,0,0,0,7,11,4,5,12>>
Rec4 == <<1,0,0,0,0,1,8,2,0,8,10,1,5,12>>
Rec16 == <<4,0,0,0,0,1,8,2,0,8,10,1,12,13,5,13,9,4,8,11,3,2,0,3,0,0,7,1,0,1,0,0,0,0,0,0,6,0>>
Rec16b == <<4,0,0,0,0,1,8,2,0,7,11,4,12,13,5,13,9,4,8,11,3,2,0,3,0,0,8,4,0,1,0,0,0,0,0,0,5,12>>

Rec16c == <<4,0,0,0,1,1,2,2,3,3,10,1,12,13,5,13,9,4,8,11,3,2,0,3,4,4,5,5,6,6,7,7,8,8,9,9,4,14>>
Rec16d == <<4,0,0,0,15,15,14,14,13,13,0,1,0,0,0,0,0,0,0,0,0,0,0,0,12,12,11,11,10,10,9,9,8,8,7,7,0,1>>

\* a record with a zero product code, and Rec4 cut in two by the MTU
RecZero == <<0,0,0,0,6,0>>
Rec4Head == <<1,0,0,0,0,1>>
Rec4Rest == <<8,2,0,8,10,1,5,12>>

NotificationFrames ==
    { UplinkHeader(DESTINATION_NOTIFICATION) \o p :
        p \in { NOTIFICATION_TRIGGER_PUSHED, NOTIFICATION_TRIGGER_RELEASED,
                <<10,1,0,1>>, NOTIFICATION_TRIGGER_PUSHED \o <<0, 0>> } }
        \cup { <<10,7,11,3,0,0,13,9>> }

AckFrames ==
    { UplinkHeader(DESTINATION_RFID) \o RFID_COMMAND \o <<0, 0>> }

OtherRfidFrames ==
    { UplinkHeader(DESTINATION_RFID) \o TURN_ON_RFID, <<10,7,11,3,0,0,12,2,8,2>> }

TagReadFrames ==
    { TagReadHead \o b : b \in { Rec2 \o Rec4, Rec2 \o Rec4Head, Rec2 \o RecZero,
                                 Rec0 \o <<0, 8>> } }

ChunkFrames ==
    { Rec4Rest, <<0, 8>>, <<10,7,11,3,13,9>>, <<>> }

FrameHex ==
    NotificationFrames \cup AckFrames \cup OtherRfidFrames \cup TagReadFrames \cup ChunkFrames

\* the values the transport delivers
Frames ==
    { hexToBase64(h) : h \in FrameHex }

\* the trigger notifications
TriggerFrames ==
    { hexToBase64(UplinkHeader(DESTINATION_NOTIFICATION) \o p) :
        p \in { NOTIFICATION_TRIGGER_PUSHED, NOTIFICATION_TRIGGER_RELEASED } }

NoFlush == <<-3>>

---------------------------------------------------------------------------
(* State machine *)

\* the state after the module is loaded
InitModule ==
    /\ currentDataStream = <<>>
    /\ pc = "idle"
    /\ decodedValue = <<>>
    /\ writeCharacteristic = FALSE
    /\ tagReadPayload = <<>>
    /\ bufBefore = <<>>
    /\ flushed = NoFlush
    /\ emitted = <<>>
    /\ flushError = "none"
    /\ raised = FALSE
    /\ sent = <<>>
    /\ readPos = {}
    /\ inflight = <<>>
    /\ chunks = 0
    /\ call = "none"
    /\ commands = <<>>
    /\ delivered = <<>>
    /\ opcode = <<>>

Init ==
    /\ InitModule
    /\ script = <<>>

\* an append that drops a frame that arrives while no batch is buffered
appendDecodedValue_idleDrop(buffer, value) ==
    IF buffer = <<>> THEN <<>> ELSE buffer \o value

\* currentDataStream += decodedValue
appendDecodedValue(buffer, value) ==
    buffer \o value

\* processCS108Data(value, wc) up to its first call of processTagData, or to its end
\* for a frame that is neither a notification nor an RFID frame
processCS108Data(value, wc) ==
    LET decoded == base64ToHex(value)
        classified == isNotification(decoded) \/ isRFID(decoded)
    IN  /\ pc = "idle"
        /\ Len(inflight) < MaxInFlight
        /\ classified \/ chunks < MaxChunks
        /\ call' = "processCS108Data"
        /\ decodedValue' = decoded
        /\ writeCharacteristic' = wc
        /\ bufBefore' = currentDataStream
        /\ readPos' = {substringReads(decoded, 6, 8)}
        /\ flushed' = NoFlush
        /\ emitted' = <<>>
        /\ flushError' = "none"
        /\ raised' = FALSE
        /\ sent' = <<>>
        /\ commands' = <<>>
        /\ tagReadPayload' = <<>>
        /\ pc' = IF classified THEN "processTagData" ELSE "idle"
        /\ currentDataStream' =
              IF classified THEN currentDataStream
              ELSE appendDecodedValue(currentDataStream, decoded)
        /\ chunks' = IF classified THEN chunks ELSE chunks + 1
        /\ UNCHANGED inflight

\* processTagData up to the loop: return at once on an empty buffer
processTagData ==
    /\ pc = "processTagData"
    /\ pc' = IF currentDataStream = <<>> THEN "switch" ELSE "extract"
    /\ flushed' = IF currentDataStream = <<>> THEN flushed ELSE currentDataStream
    /\ tagReadPayload' =
          IF currentDataStream = <<>> THEN tagReadPayload
          ELSE substringFrom(currentDataStream, TagReadPayloadOffset)
    /\ UNCHANGED <<currentDataStream, decodedValue, writeCharacteristic, bufBefore, emitted,
                   flushError, raised, sent, readPos, inflight, chunks, call, commands,
                   script, delivered, opcode>>

\* one turn of the loop of processTagData, its exit, or its catch clause
extractStep ==
    /\ pc = "extract"
    /\ LET t == extractTurn(tagReadPayload, emitted)
           c == processTagDataCatch(t.error)
       IN  IF Len(tagReadPayload) = 0
           THEN /\ currentDataStream' = <<>>
                /\ pc' = "switch"
                /\ UNCHANGED <<tagReadPayload, emitted, flushError, raised>>
           ELSE IF t.error = "none"
           THEN /\ emitted' = t.emitted
                /\ tagReadPayload' = t.tagReadPayload
                /\ UNCHANGED <<currentDataStream, pc, flushError, raised>>
           ELSE /\ currentDataStream' = c.currentDataStream
                /\ flushError' = c.flushError
                /\ raised' = c.thrown
                /\ emitted' = t.emitted
                /\ pc' = IF c.thrown THEN "idle" ELSE "switch"
                /\ UNCHANGED tagReadPayload
    /\ chunks' = 0
    /\ UNCHANGED <<decodedValue, writeCharacteristic, bufBefore, flushed, sent, readPos,
                   inflight, call, commands, script, delivered, opcode>>

\* the notification switch with the two cases exchanged
notificationCommand_swapped(payload) ==
    IF payload = NOTIFICATION_TRIGGER_PUSHED THEN <<ABORT_INVENTORY>>
    ELSE IF payload = NOTIFICATION_TRIGGER_RELEASED THEN <<START_INVENTORY>>
    ELSE <<>>

\* a switch that looks at the first two bytes of the payload only
notificationCommand_prefix(payload) ==
    IF substring(payload, 0, 4) = NOTIFICATION_TRIGGER_PUSHED THEN <<START_INVENTORY>>
    ELSE IF substring(payload, 0, 4) = NOTIFICATION_TRIGGER_RELEASED THEN <<ABORT_INVENTORY>>
    ELSE <<>>

\* the command the notification switch hands to SendCommand, <<>> when none
notificationCommand(payload) ==
    IF payload = NOTIFICATION_TRIGGER_PUSHED THEN <<START_INVENTORY>>
    ELSE IF payload = NOTIFICATION_TRIGGER_RELEASED THEN <<ABORT_INVENTORY>>
    ELSE <<>>

\* an RFID switch that starts a batch on a command confirmation too
rfidSwitch_ackStarts(value, buffer) ==
    IF getEventCode(value) = RFID_COMMAND THEN value
    ELSE IF getEventCode(value) = EVENT_CODE_TAG_READ THEN value
    ELSE buffer

\* an RFID switch that keeps the payload of a tag-read frame and drops its header
rfidSwitch_payloadOnly(value, buffer) ==
    IF getEventCode(value) = RFID_COMMAND THEN buffer
    ELSE IF getEventCode(value) = EVENT_CODE_TAG_READ THEN getPayload(value)
    ELSE buffer

\* an RFID switch that starts a batch on every event code but the confirmation
rfidSwitch_otherStarts(value, buffer) ==
    IF getEventCode(value) = RFID_COMMAND THEN buffer
    ELSE IF getEventCode(value) = EVENT_CODE_TAG_READ THEN value
    ELSE value

\* the buffer after the RFID switch
rfidSwitch(value, buffer) ==
    IF getEventCode(value) = RFID_COMMAND THEN buffer
    ELSE IF getEventCode(value) = EVENT_CODE_TAG_READ THEN value
    ELSE buffer

\* a loop that awaits each write: the first write only is initiated by the time the
\* caller goes on
forEachSendCommand_awaited(cmds, wc) ==
    IF cmds = <<>> THEN <<>> ELSE SendCommand(Head(cmds), wc)

\* commands.forEach(SendCommand): the writes initiated, in order
RECURSIVE forEachSendCommand(_, _)
forEachSendCommand(cmds, wc) ==
    IF cmds = <<>> THEN <<>>
    ELSE SendCommand(Head(cmds), wc) \o forEachSendCommand(Tail(cmds), wc)

\* the rest of processCS108Data after processTagData has returned
switch ==
    /\ pc = "switch"
    /\ pc' = "idle"
    /\ IF isNotification(decodedValue)
       THEN LET cmds == notificationCommand(getPayload(decodedValue))
            IN  /\ commands' = commands \o cmds
                /\ sent' = sent \o forEachSendCommand(cmds, writeCharacteristic)
                /\ inflight' = inflight \o forEachSendCommand(cmds, writeCharacteristic)
                /\ readPos' = readPos
                      \cup {substringReads(decodedValue, 16, Len(decodedValue))}
                /\ UNCHANGED currentDataStream
       ELSE /\ currentDataStream' = rfidSwitch(decodedValue, currentDataStream)
            /\ readPos' = readPos \cup {substringReads(decodedValue, 16, 20)}
            /\ UNCHANGED <<sent, inflight, commands>>
    /\ chunks' = 0
    /\ UNCHANGED <<decodedValue, writeCharacteristic, tagReadPayload, bufBefore, flushed,
                   emitted, flushError, raised, call, script, delivered, opcode>>

\* the array with antenna power ahead of antenna port select
startCommands_swapped ==
    <<TURN_ON_RFID, ANT_PORT_POWER, ANT_PORT_SEL, USE_CURRENT_PROFILE, ENABLE_PROFILE,
      ANT_CYCLES, QUERY_CFG, INV_SEL, INV_ALG_PARM_0, INV_ALG_PARM_1, INV_ALG_PARM_2,
      INV_CFG>>

\* the commands startRFIDReader sends, in the order of its array
startCommands ==
    <<TURN_ON_RFID, ANT_PORT_SEL, ANT_PORT_POWER, USE_CURRENT_PROFILE, ENABLE_PROFILE,
      ANT_CYCLES, QUERY_CFG, INV_SEL, INV_ALG_PARM_0, INV_ALG_PARM_1, INV_ALG_PARM_2,
      INV_CFG>>

\* startRFIDReader(writeCharacteristic), called with no write outstanding
startRFIDReader ==
    /\ pc = "idle"
    /\ inflight = <<>>
    /\ call' = "startRFIDReader"
    /\ commands' = startCommands
    /\ sent' = forEachSendCommand(startCommands, TRUE)
    /\ inflight' = inflight \o forEachSendCommand(startCommands, TRUE)
    /\ decodedValue' = <<>>
    /\ writeCharacteristic' = TRUE
    /\ bufBefore' = currentDataStream
    /\ flushed' = NoFlush
    /\ emitted' = <<>>
    /\ flushError' = "none"
    /\ raised' = FALSE
    /\ readPos' = {}
    /\ tagReadPayload' = <<>>
    /\ UNCHANGED <<currentDataStream, pc, chunks, script, delivered, opcode>>

\* the transport completes one outstanding write (writeWithResponse settles)
writeComplete(i) ==
    /\ pc = "idle"
    /\ i \in 1 .. Len(inflight)
    /\ inflight' = SubSeq(inflight, 1, i - 1) \o SubSeq(inflight, i + 1, Len(inflight))
    /\ UNCHANGED <<currentDataStream, pc, decodedValue, writeCharacteristic, tagReadPayload,
                   bufBefore, flushed, emitted, flushError, raised, sent, readPos, chunks,
                   call, commands, script, delivered, opcode>>

\* a call without a write characteristic differs from one with it only when
\* SendCommand is reached, that is for the trigger notifications
Receive ==
    \E value \in Frames, wc \in BOOLEAN :
        /\ wc \/ value \in TriggerFrames
        /\ processCS108Data(value, wc)
        /\ UNCHANGED <<script, delivered, opcode>>

Complete ==
    \E i \in 1 .. Len(inflight) : writeComplete(i)

Next ==
    \/ Receive
    \/ processTagData
    \/ extractStep
    \/ switch
    \/ Complete

Spec == Init /\ [][Next]_vars

---------------------------------------------------------------------------
(* The initialization sequence, with the trigger notifications that may arrive *)
(* on an empty buffer meanwhile                                               *)

ReceiveTrigger ==
    \E value \in TriggerFrames, wc \in BOOLEAN :
        /\ currentDataStream = <<>>
        /\ processCS108Data(value, wc)
        /\ UNCHANGED <<script, delivered, opcode>>

NextStart ==
    \/ startRFIDReader
    \/ Complete
    \/ ReceiveTrigger
    \/ processTagData
    \/ switch

SpecStart == Init /\ [][NextStart]_vars

---------------------------------------------------------------------------
(* Scripted runs: a fixed sequence of frames is delivered in order *)

WellFormedRecords ==
    { Rec0, Rec2, Rec2b, Rec4, Rec16, Rec16b }

ScriptChunks ==
    ChunkFrames \cup { Rec2b }

\* tag-read frame, continuation chunk, notification, continuation chunk
InterleavedScripts ==
    { <<hexToBase64(t), hexToBase64(c1), hexToBase64(n), hexToBase64(c2)>> :
        t \in TagReadFrames, c1 \in ScriptChunks, n \in NotificationFrames,
        c2 \in ScriptChunks }

\* a tag-read frame of two well-formed records, then a trigger notification
TwoRecordScripts ==
    { <<hexToBase64(TagReadHead \o r1 \o r2),
        hexToBase64(UplinkHeader(DESTINATION_NOTIFICATION) \o NOTIFICATION_TRIGGER_PUSHED)>> :
        r1 \in WellFormedRecords, r2 \in WellFormedRecords }

\* records of product code 0x4000, 19 bytes each
Records16 ==
    { Rec16, Rec16b, Rec16c, Rec16d }

\* payloads that end before the identifier or the signal strength of their last record
\* is complete, and payloads of records with an identifier of length zero
TruncatedBodies ==
    { SubSeq(Rec16, 1, 36), SubSeq(Rec16c, 1, 8), SubSeq(Rec4, 1, 6), SubSeq(Rec2, 1, 8),
      Rec2 \o SubSeq(Rec16b, 1, 30), Rec0 \o Rec0, Rec0 \o SubSeq(Rec0, 1, 4),
      Rec16 \o <<0, 0>> }

\* a tag-read frame of one payload, then a trigger notification
ExtractionScripts ==
    { <<hexToBase64(TagReadHead \o b),
        hexToBase64(UplinkHeader(DESTINATION_NOTIFICATION) \o NOTIFICATION_TRIGGER_PUSHED)>> :
        b \in Records16 \cup TruncatedBodies }

Scripts ==
    InterleavedScripts \cup TwoRecordScripts \cup ExtractionScripts

InitScript ==
    /\ InitModule
    /\ script \in Scripts

Deliver ==
    /\ script # <<>>
    /\ processCS108Data(Head(script), TRUE)
    /\ script' = Tail(script)
    /\ delivered' = Append(delivered, Head(script))
    /\ UNCHANGED opcode

NextScript ==
    \/ Deliver
    \/ processTagData
    \/ extractStep
    \/ switch
    \/ Complete

SpecScript == InitScript /\ [][NextScript]_vars

\* the scripted runs with the loop of processTagData running to its end: the loop is
\* synchronous code, once entered it is not suspended. This is weak fairness of
\* extractStep, which is enabled exactly when pc = "extract"
SpecScriptFair ==
    SpecScript /\ ([]<>(pc # "extract") \/ []<><<extractStep>>_vars)

---------------------------------------------------------------------------
(* Round-trip runs: a command frame is built as SendCommand builds it and is then *)
(* handed to processCS108Data as an inbound frame                              *)

\* the byte values the arbitrary opcodes are made of
OpcodeBytes ==
    { 0, 129, 217 }

RECURSIVE ByteSeqs(_)
ByteSeqs(n) ==
    IF n = 0 THEN { <<>> }
    ELSE ByteSeqs(n - 1) \cup
         { Append(b, x) : b \in { q \in ByteSeqs(n - 1) : Len(q) = n - 1 }, x \in OpcodeBytes }

\* every command of the source, and every byte sequence up to MaxOpcodeLen
Opcodes ==
    { startCommands[i] : i \in 1 .. Len(startCommands) }
        \cup { START_INVENTORY, ABORT_INVENTORY }
        \cup { base64ToHex(b) : b \in ByteSeqs(MaxOpcodeLen) }

EncodeCommand ==
    \E op \in Opcodes :
        /\ pc = "idle"
        /\ inflight = <<>>
        /\ script = <<>>
        /\ opcode' = op
        /\ call' = "SendCommand"
        /\ commands' = <<op>>
        /\ sent' = SendCommand(op, TRUE)
        /\ inflight' = inflight \o SendCommand(op, TRUE)
        /\ script' = <<SendCommand(op, TRUE)[1].value>>
        /\ delivered' = <<>>
        /\ decodedValue' = <<>>
        /\ writeCharacteristic' = TRUE
        /\ bufBefore' = currentDataStream
        /\ flushed' = NoFlush
        /\ emitted' = <<>>
        /\ flushError' = "none"
        /\ raised' = FALSE
        /\ readPos' = {}
        /\ tagReadPayload' = <<>>
        /\ UNCHANGED <<currentDataStream, pc, chunks>>

NextRoundTrip ==
    \/ EncodeCommand
    \/ Deliver
    \/ processTagData
    \/ extractStep
    \/ switch
    \/ Complete

SpecRoundTrip == Init /\ [][NextRoundTrip]_vars

---------------------------------------------------------------------------
(* Properties *)

\* the frame of the call, read byte by byte: destination code at byte 3 (characters 6
\* and 7), payload from byte 8 on
FrameHasDestination(d) ==
    /\ call = "processCS108Data"
    /\ Len(decodedValue) >= 8
    /\ <<decodedValue[7], decodedValue[8]>> = d

FramePayload ==
    SubSeq(decodedValue, 17, Len(decodedValue))

IsTagReadFrame ==
    /\ FrameHasDestination(DESTINATION_RFID)
    /\ Len(decodedValue) >= 20
    /\ SubSeq(decodedValue, 17, 20) = EVENT_CODE_TAG_READ

\* the write that carries a command: the constant header, then the command
WriteOf(command) ==
    [command |-> command, value |-> hexToBase64(defaultCommandHeader \o command)]

\* C1: a NOTIFICATION frame whose payload is the trigger-pushed code hands exactly one
\* command, start-inventory, to SendCommand, whatever the buffer held; nothing is sent
\* while the buffer is being flushed, and when the command is sent the buffer has been
\* handed to the extractor and is empty. The write reaches the transport when a write
\* characteristic was supplied.
C1_TriggerPushedStartsInventory ==
    (FrameHasDestination(DESTINATION_NOTIFICATION)
        /\ FramePayload = NOTIFICATION_TRIGGER_PUSHED) =>
        /\ pc \in {"processTagData", "extract", "switch"} => commands = <<>> /\ sent = <<>>
        /\ pc = "switch" =>
              /\ currentDataStream = <<>>
              /\ flushed = IF bufBefore = <<>> THEN NoFlush ELSE bufBefore
        /\ pc = "idle" =>
              /\ commands = <<START_INVENTORY>>
              /\ sent = IF writeCharacteristic THEN <<WriteOf(START_INVENTORY)>> ELSE <<>>
              /\ currentDataStream = <<>>
              /\ ~raised

\* C1 witness: the trigger was pushed on a buffered batch that held records, and the
\* start-inventory write is under way
C1_Witness ==
    /\ FrameHasDestination(DESTINATION_NOTIFICATION)
    /\ FramePayload = NOTIFICATION_TRIGGER_PUSHED
    /\ pc = "idle"
    /\ bufBefore # <<>>
    /\ emitted # <<>>
    /\ flushError # "none"
    /\ sent = <<WriteOf(START_INVENTORY)>>

\* C2: when the extractor fails during a flush (fewer than 2 bytes left for a product
\* code, or a zero product code) the buffer is empty when the flush returns, and after
\* the call it holds nothing of the failed batch: it is empty, or it is the tag-read
\* frame that triggered the flush.
C2_BufferEmptyAfterFailure ==
    flushError # "none" =>
        /\ flushError \in {"Invalid payload", "Invalid product code"}
        /\ pc \in {"switch", "idle"}
        /\ pc = "switch" => currentDataStream = <<>>
        /\ pc = "idle" =>
              currentDataStream = IF IsTagReadFrame THEN decodedValue ELSE <<>>

\* C2 witness: a flush has just failed on a zero product code after a good record
C2_Witness ==
    /\ pc = "switch"
    /\ flushError = "Invalid product code"
    /\ Len(bufBefore) > TagReadPayloadOffset
    /\ emitted # <<>>
    /\ currentDataStream = <<>>

\* the frames of a scripted run, delivered or not
ScriptFrames ==
    delivered \o script

\* a run of a tag-read frame, a chunk, a NOTIFICATION frame and a chunk
InterleavedRun ==
    Len(ScriptFrames) = 4

\* C3: for the frames tag-read, chunk c1, NOTIFICATION, chunk c2, the buffer handed to
\* the extractor at the NOTIFICATION frame is the tag-read frame followed by c1, the
\* buffer is empty once the NOTIFICATION frame is processed, and c2 is then appended to
\* the empty buffer.
C3_FlushAtNotificationBoundary ==
    InterleavedRun =>
        /\ (Len(delivered) = 1 /\ pc = "idle") =>
              currentDataStream = base64ToHex(delivered[1])
        /\ (Len(delivered) = 2 /\ pc = "idle") =>
              currentDataStream = base64ToHex(delivered[1]) \o base64ToHex(delivered[2])
        /\ (Len(delivered) = 3 /\ pc \in {"extract", "switch", "idle"}) =>
              flushed = base64ToHex(delivered[1]) \o base64ToHex(delivered[2])
        /\ (Len(delivered) = 3 /\ pc \in {"switch", "idle"}) => currentDataStream = <<>>
        /\ Len(delivered) = 4 =>
              /\ pc = "idle"
              /\ currentDataStream = base64ToHex(delivered[4])
              /\ flushed = NoFlush

\* C3 witness: the second chunk is in the buffer alone, the first one was not empty
C3_Witness ==
    /\ InterleavedRun
    /\ Len(delivered) = 4
    /\ delivered[2] # <<>>
    /\ delivered[4] # <<>>
    /\ currentDataStream = base64ToHex(delivered[4])

\* the characters of the logged records in the payload: product code, identifier and
\* signal strength of each
RECURSIVE RecordsLength(_)
RecordsLength(log) ==
    IF log = <<>> THEN 0
    ELSE 4 + Len(Head(log).epc) + 2 + RecordsLength(Tail(log))

\* the buffer handed to the extractor, without the 18 bytes of the tag-read header
FlushedPayload ==
    SubSeq(flushed, 37, Len(flushed))

\* the logged records are the records that lie one after the other at the head of the
\* payload handed to the extractor
LoggedAreLeadingRecords ==
    \A i \in 1 .. Len(emitted) :
        LET off == RecordsLength(SubSeq(emitted, 1, i - 1))
            code == SubSeq(FlushedPayload, off + 1, off + 4)
        IN  /\ off + 4 + Len(emitted[i].epc) + 2 <= Len(FlushedPayload)
            /\ code # <<0, 0, 0, 0>>
            /\ emitted[i].productCode = StripLeadingZeros(code)
            /\ Len(emitted[i].epc) = 4 * (NumberValue(code) \div 2048)
            /\ emitted[i].epc = SubSeq(FlushedPayload, off + 5, off + 4 + Len(emitted[i].epc))

ShortFrame ==
    call = "processCS108Data" /\ Len(decodedValue) < 16

\* no character position at or beyond the length of the frame is read
ReadsInRange ==
    \A r \in readPos : 0 <= r[1] /\ r[1] <= r[2] /\ r[2] <= Len(decodedValue)

C6_CommandRoundTrip ==
    delivered # <<>> =>
        /\ decodedValue = base64ToHex(delivered[1])
        /\ isRFID(decodedValue)
        /\ ~isNotification(decodedValue)
        /\ getPayload(decodedValue) = opcode
        /\ hexToBase64(getPayload(decodedValue)) = hexToBase64(opcode)
        /\ chunks = 0

\* C6 witness: the frame of the 2-byte turn-on command has been decoded
C6_Witness ==
    /\ delivered # <<>>
    /\ opcode = TURN_ON_RFID
    /\ pc = "idle"
    /\ getPayload(decodedValue) = TURN_ON_RFID

\* an RFID frame whose event code is the generic command opcode
IsAckFrame ==
    /\ FrameHasDestination(DESTINATION_RFID)
    /\ Len(decodedValue) >= 20
    /\ SubSeq(decodedValue, 17, 20) = RFID_COMMAND

\* C7 (as claimed): a command acknowledgment changes no state: the buffer after the
\* frame is the buffer before it, no tag record and no command is emitted.
C7_AckChangesNothing ==
    (IsAckFrame /\ pc = "idle") =>
        /\ currentDataStream = bufBefore
        /\ emitted = <<>>
        /\ commands = <<>> /\ sent = <<>>

\* C7 (amended): a command acknowledgment flushes the buffer like every RFID frame (the
\* buffered batch is handed to the extractor, its records are emitted and the buffer is
\* cleared) and changes nothing else: the buffer is empty after the frame, no record is
\* emitted when the buffer was empty, and no command is emitted.
C7_AckOnlyFlushes ==
    IsAckFrame =>
        /\ commands = <<>> /\ sent = <<>>
        /\ ~raised
        /\ pc \in {"switch", "idle"} =>
              /\ currentDataStream = <<>>
              /\ flushed = IF bufBefore = <<>> THEN NoFlush ELSE bufBefore
              /\ bufBefore = <<>> => emitted = <<>>

\* C7 witness: an acknowledgment arrived on a buffered batch, whose records were emitted
C7_Witness ==
    /\ IsAckFrame
    /\ pc = "idle"
    /\ bufBefore # <<>>
    /\ emitted # <<>>
    /\ currentDataStream = <<>>

\* the commands the frame of the call asks for
ExpectedCommands ==
    IF FrameHasDestination(DESTINATION_NOTIFICATION)
            /\ FramePayload = NOTIFICATION_TRIGGER_PUSHED
    THEN <<START_INVENTORY>>
    ELSE IF FrameHasDestination(DESTINATION_NOTIFICATION)
            /\ FramePayload = NOTIFICATION_TRIGGER_RELEASED
    THEN <<ABORT_INVENTORY>>
    ELSE <<>>

\* C8: an extraction failure is confined to the batch being flushed: the call does not
\* raise, the frame that triggered the flush is still classified (a trigger notification
\* emits its command, a tag-read frame becomes the buffer), and the state left for the
\* later frames is the one the same frame leaves from an empty buffer.
C8_FailureConfinedToBatch ==
    flushError # "none" =>
        /\ ~raised
        /\ pc \in {"switch", "idle"}
        /\ pc = "idle" =>
              /\ commands = ExpectedCommands
              /\ sent = IF writeCharacteristic
                        THEN [i \in 1 .. Len(ExpectedCommands) |-> WriteOf(ExpectedCommands[i])]
                        ELSE <<>>
              /\ currentDataStream = IF IsTagReadFrame THEN decodedValue ELSE <<>>
              /\ chunks = 0

\* C8 witness: after a failed flush the tag-read frame that triggered it is the buffer
C8_Witness ==
    /\ flushError = "Invalid payload"
    /\ pc = "idle"
    /\ IsTagReadFrame
    /\ currentDataStream = decodedValue
    /\ ~raised

\* C9: startRFIDReader initiates exactly 12 writes, one per initialization command, each
\* the constant header followed by the command, in the catalog order; start-inventory
\* and abort-inventory are not among them.
C9_StartSequence ==
    call = "startRFIDReader" =>
        /\ Len(sent) = 12
        /\ [i \in 1 .. Len(sent) |-> sent[i].command] =
              <<TURN_ON_RFID, ANT_PORT_SEL, ANT_PORT_POWER, USE_CURRENT_PROFILE,
                ENABLE_PROFILE, ANT_CYCLES, QUERY_CFG, INV_SEL, INV_ALG_PARM_0,
                INV_ALG_PARM_1, INV_ALG_PARM_2, INV_CFG>>
        /\ \A i \in 1 .. Len(sent) :
              /\ sent[i].value =
                    hexToBase64(defaultCommandHeader) \o hexToBase64(sent[i].command)
              /\ sent[i].command \notin {START_INVENTORY, ABORT_INVENTORY}

\* C9 witness: startRFIDReader has just returned, its 12 writes are outstanding
C9_Witness ==
    /\ call = "startRFIDReader"
    /\ Len(sent) = 12
    /\ inflight = sent

\* a run of a tag-read frame of two records and a notification
TwoRecordRun ==
    Len(ScriptFrames) = 2

\* a well-formed record: non-zero product code, identifier of (code >> 11) x 2 bytes,
\* one signal-strength byte
IsWellFormed(r) ==
    /\ Len(r) >= 6
    /\ SubSeq(r, 1, 4) # <<0, 0, 0, 0>>
    /\ Len(r) = 4 + 4 * (NumberValue(SubSeq(r, 1, 4)) \div 2048) + 2

\* the identifier and the signal strength of a well-formed record
FieldsOf(r) ==
    [epc |-> SubSeq(r, 5, Len(r) - 2),
     rssi |-> StripLeadingZeros(SubSeq(r, Len(r) - 1, Len(r)))]

\* C10: a payload of two well-formed records yields exactly two records, in input
\* order; the first identifier is the bytes after the first product code, the second
\* record starts right after the first signal-strength byte, and the two records
\* cover the payload without overlap.
C10_TwoRecordsInOrder ==
    \A r1 \in WellFormedRecords, r2 \in WellFormedRecords :
        (/\ TwoRecordRun
         /\ ScriptFrames[1] = hexToBase64(TagReadHead \o r1 \o r2)
         /\ Len(delivered) = 2
         /\ pc \in {"switch", "idle"}) =>
            /\ IsWellFormed(r1) /\ IsWellFormed(r2)
            /\ flushError = "none"
            /\ Len(emitted) = 2
            /\ emitted[1].epc = FieldsOf(r1).epc /\ emitted[1].rssi = FieldsOf(r1).rssi
            /\ emitted[2].epc = FieldsOf(r2).epc /\ emitted[2].rssi = FieldsOf(r2).rssi
            /\ RecordsLength(emitted) = Len(FlushedPayload)
            /\ LoggedAreLeadingRecords

\* C10 witness: two different 16-byte identifiers have been extracted from one payload
C10_Witness ==
    /\ TwoRecordRun
    /\ Len(delivered) = 2
    /\ pc = "idle"
    /\ Len(emitted) = 2
    /\ Len(emitted[1].epc) = 32
    /\ Len(emitted[2].epc) = 32
    /\ emitted[1].epc # emitted[2].epc

\* the tag-read frame of a scripted run of a tag-read frame and a notification carries
\* the payload b, and the notification has been delivered
ExtractionRunOf(b) ==
    /\ Len(ScriptFrames) = 2
    /\ ScriptFrames[1] = hexToBase64(TagReadHead \o b)
    /\ Len(delivered) = 2

\* C11: a product code of 0x4000 gives an identifier of 16 bytes (0x4000 >> 11 = 8
\* words), and a payload of exactly 2 + 16 + 1 bytes that starts with it yields exactly
\* one record, of a 16-byte identifier and a 1-byte signal strength, and an empty
\* remainder: the loop stops after one turn without error.
C11_OneRecordOf19Bytes ==
    \A r \in Records16 :
        ExtractionRunOf(r) =>
            /\ Len(r) = 2 * (2 + 16 + 1)
            /\ SubSeq(r, 1, 4) = <<4, 0, 0, 0>>
            /\ flushError = "none" /\ ~raised
            /\ pc = "extract" =>
                  \/ emitted = <<>> /\ tagReadPayload = r
                  \/ Len(emitted) = 1 /\ tagReadPayload = <<>>
            /\ pc \in {"switch", "idle"} => Len(emitted) = 1
            /\ emitted # <<>> =>
                  /\ emitted[1].productCode = <<4, 0, 0, 0>>
                  /\ Len(emitted[1].epc) = 2 * 16
                  /\ emitted[1].epc = SubSeq(r, 5, 36)
                  /\ emitted[1].rssi = StripLeadingZeros(SubSeq(r, 37, 38))

\* C11 witness: the loop has taken its one turn on the 19 bytes of the sample record
C11_Witness ==
    /\ ExtractionRunOf(Rec16)
    /\ pc = "extract"
    /\ Len(emitted) = 1
    /\ Len(emitted[1].epc) = 32
    /\ tagReadPayload = <<>>

\* the digits of bytes hi down to lo (counted from 0) of a hex string
BytesReversed(epc, lo, hi) ==
    [j \in 1 .. 2 * (hi - lo + 1) |->
        epc[2 * (hi - ((j - 1) \div 2)) + 1 + ((j - 1) % 2)]]

\* C12 as stated: the visual ID of an emitted record is the number whose big-endian
\* digits are identifier bytes 3 through 10 inclusive (eight bytes), in reversed order.
C12_VidOfBytes3To10 ==
    \A i \in 1 .. Len(emitted) :
        Len(emitted[i].epc) >= 2 * 11 =>
            emitted[i].vid = StripLeadingZeros(BytesReversed(emitted[i].epc, 3, 10))

\* C12: the visual ID of an emitted record is the number whose big-endian digits are
\* identifier bytes 3 through 9 inclusive (seven bytes), in reversed order; of an
\* identifier that ends before byte 9 the bytes from byte 3 to its end are taken, and an
\* identifier without a byte 3 has no number. No other identifier byte has a part in it.
C12_VidOfBytes3To9 ==
    \A i \in 1 .. Len(emitted) :
        LET epc == emitted[i].epc
            last == IF Len(epc) >= 2 * 10 THEN 9 ELSE (Len(epc) \div 2) - 1
        IN  emitted[i].vid =
                IF last < 3 THEN NaN
                ELSE StripLeadingZeros(BytesReversed(epc, 3, last))

\* C12 witness: a record is emitted whose identifier byte 10 is not zero, and its
\* visual ID is the number of the seven bytes 3..9
C12_Witness ==
    /\ ExtractionRunOf(Rec16c)
    /\ Len(emitted) = 1
    /\ SubSeq(emitted[1].epc, 21, 22) = <<4, 4>>
    /\ emitted[1].vid = <<3, 3, 2, 8, 11, 9, 4, 5, 13, 12, 13, 10, 1>>

\* C13: the command handed to SendCommand is determined by the frame alone, whatever
\* the buffer held and whether or not its extraction failed: abort-inventory, once, for
\* a NOTIFICATION frame whose payload is exactly A103; start-inventory, once, for one
\* whose payload is exactly A102; no command for any other NOTIFICATION payload, for
\* any RFID frame and for any unclassified frame. No command is handed over before the
\* flush has returned, and the writes are those of the commands.
C13_CommandDeterminedByFrame ==
    call = "processCS108Data" =>
        /\ pc # "idle" => commands = <<>> /\ sent = <<>>
        /\ pc = "idle" =>
              /\ (FrameHasDestination(DESTINATION_NOTIFICATION)
                     /\ FramePayload = <<10, 1, 0, 3>>)
                    => commands = <<ABORT_INVENTORY>>
              /\ (FrameHasDestination(DESTINATION_NOTIFICATION)
                     /\ FramePayload = <<10, 1, 0, 2>>)
                    => commands = <<START_INVENTORY>>
              /\ (FrameHasDestination(DESTINATION_NOTIFICATION)
                     /\ FramePayload \notin {<<10, 1, 0, 2>>, <<10, 1, 0, 3>>})
                    => commands = <<>>
              /\ FrameHasDestination(DESTINATION_RFID) => commands = <<>>
              /\ (~FrameHasDestination(DESTINATION_NOTIFICATION)
                     /\ ~FrameHasDestination(DESTINATION_RFID))
                    => commands = <<>>
              /\ sent \in {<<>>, [i \in 1 .. Len(commands) |-> WriteOf(commands[i])]}

\* C13 witness: a trigger-released notification that found a buffer whose extraction
\* failed has handed over abort-inventory, once
C13_Witness ==
    /\ pc = "idle"
    /\ FrameHasDestination(DESTINATION_NOTIFICATION)
    /\ FramePayload = NOTIFICATION_TRIGGER_RELEASED
    /\ bufBefore # <<>>
    /\ flushError # "none"
    /\ commands = <<ABORT_INVENTORY>>

\* C14: after an RFID frame whose event code is tag read the buffer is exactly that
\* frame: what the buffer held before was handed to the extractor and cleared first,
\* and is not prepended. After a NOTIFICATION frame, or an RFID frame of any other event
\* code, the buffer is empty.
C14_BufferAfterClassifiedFrame ==
    (call = "processCS108Data"
        /\ (FrameHasDestination(DESTINATION_RFID)
               \/ FrameHasDestination(DESTINATION_NOTIFICATION))) =>
        /\ (pc \in {"switch", "idle"} /\ bufBefore # <<>>) => flushed = bufBefore
        /\ pc = "switch" => currentDataStream = <<>>
        /\ pc = "idle" =>
              currentDataStream = IF IsTagReadFrame THEN decodedValue ELSE <<>>

\* C14 witness: a tag-read frame has replaced a buffer that held another batch
C14_Witness ==
    /\ pc = "idle"
    /\ IsTagReadFrame
    /\ bufBefore # <<>>
    /\ bufBefore # decodedValue
    /\ flushed = bufBefore
    /\ emitted # <<>>
    /\ currentDataStream = decodedValue

\* C15: a frame that is neither a NOTIFICATION nor an RFID frame is appended to the
\* buffer in every state, the empty buffer included: the buffer becomes what it held
\* followed by the frame, nothing is handed to the extractor, no record is emitted and
\* no command is issued.
C15_UnclassifiedFrameAppends ==
    (call = "processCS108Data"
        /\ ~FrameHasDestination(DESTINATION_RFID)
        /\ ~FrameHasDestination(DESTINATION_NOTIFICATION)) =>
        /\ pc = "idle"
        /\ currentDataStream = bufBefore \o decodedValue
        /\ flushed = NoFlush
        /\ tagReadPayload = <<>>
        /\ emitted = <<>>
        /\ flushError = "none" /\ ~raised
        /\ commands = <<>> /\ sent = <<>>

\* C15 witness: an unclassified frame has been appended to the empty buffer
C15_Witness ==
    /\ call = "processCS108Data"
    /\ ~FrameHasDestination(DESTINATION_RFID)
    /\ ~FrameHasDestination(DESTINATION_NOTIFICATION)
    /\ bufBefore = <<>>
    /\ decodedValue # <<>>
    /\ currentDataStream = decodedValue

\* C16: batch extraction terminates. Every turn of the loop that does not fail leaves a
\* remainder strictly shorter than the payload it was given, also when the identifier
\* has length zero or is longer than the bytes that are left, so the loop, which runs
\* to its end once entered, always leaves the extraction.
C16_ExtractionTerminates ==
    /\ [][(pc = "extract" /\ pc' = "extract")
             => Len(tagReadPayload') < Len(tagReadPayload)]_vars
    /\ (pc = "extract") ~> (pc # "extract")

\* C16 witness: a turn on a record with an identifier of length zero has emitted it
\* and left the shorter remainder
C16_Witness ==
    /\ ExtractionRunOf(Rec0 \o Rec0)
    /\ pc = "extract"
    /\ Len(emitted) = 1
    /\ emitted[1].epc = <<>>
    /\ tagReadPayload = Rec0

\* the identifier length in bytes a product code declares: (productCode >> 11) * 2
DeclaredIdentifierBytes(productCode) ==
    (NumberValue(productCode) \div 2048) * 2

\* C17: every emitted record has an identifier of exactly (productCode >> 11) * 2 bytes,
\* followed by exactly one signal-strength byte, for every payload, one that ends
\* before the declared identifier length included.
C17_RecordsHaveDeclaredLength ==
    \A i \in 1 .. Len(emitted) :
        /\ Len(emitted[i].epc) = 2 * DeclaredIdentifierBytes(emitted[i].productCode)
        /\ emitted[i].rssi # NaN

\* C18: outbound writes are not serialized. startRFIDReader initiates all 12 writes
\* before any of them has completed and returns with the 12 outstanding; a write that
\* is outstanding holds back neither the handling of a notification nor the command
\* its switch sends; any outstanding write may be the next to complete, whatever the
\* order of initiation.
C18_WritesNotSerialized ==
    /\ [][(call' = "startRFIDReader" /\ sent' # <<>> /\ Len(inflight') > Len(inflight))
             => /\ Len(sent') = 12
                /\ inflight' = inflight \o sent'
                /\ pc' = "idle"]_vars
    /\ [](call = "startRFIDReader" => Len(sent) = 12)
    /\ []((pc = "idle" /\ inflight # <<>> /\ Len(inflight) < MaxInFlight)
             => ENABLED ReceiveTrigger)
    /\ []((pc = "switch" /\ inflight # <<>>) => ENABLED switch)
    /\ [](pc = "idle" => \A i \in 1 .. Len(inflight) : ENABLED writeComplete(i))

\* C18 witness: the write of the start-inventory command of a notification is in
\* flight together with the first write of the initialization sequence, which is still
\* outstanding after the 11 writes initiated after it have completed
C18_Witness ==
    /\ call = "processCS108Data"
    /\ pc = "idle"
    /\ inflight = <<WriteOf(TURN_ON_RFID), WriteOf(START_INVENTORY)>>

\* the buffer begins with the header of a tag-read frame: the RFID destination at
\* byte 3 and the event code 8100 at bytes 8 and 9
HasTagReadHeader(buffer) ==
    /\ Len(buffer) >= 20
    /\ SubSeq(buffer, 7, 8) = DESTINATION_RFID
    /\ SubSeq(buffer, 17, 20) = EVENT_CODE_TAG_READ

\* C19 as stated: in every reachable state a buffer that is not empty begins with the
\* header of a tag-read frame.
C19_BufferBeginsWithHeader ==
    currentDataStream # <<>> => HasTagReadHeader(currentDataStream)

\* C19: a buffer that begins with the header of a tag-read frame keeps it for as long
\* as it is not empty, and a tag-read frame puts one there; a non-empty buffer without
\* the header comes about in one way only, by an unclassified frame that is appended
\* to an empty buffer or to a buffer that already lacks the header.
C19_HeaderUnlessStartedByChunk ==
    [][(currentDataStream' # <<>> /\ ~HasTagReadHeader(currentDataStream'))
          => /\ ~HasTagReadHeader(currentDataStream)
             /\ \/ currentDataStream' = currentDataStream
                \/ /\ call' = "processCS108Data"
                   /\ pc' = "idle"
                   /\ Len(decodedValue') < 8
                         \/ SubSeq(decodedValue', 7, 8)
                               \notin {DESTINATION_RFID, DESTINATION_NOTIFICATION}
                   /\ currentDataStream' = currentDataStream \o decodedValue']_vars

\* C19 witness: a chunk has been appended to a buffered tag-read frame, and the buffer
\* still begins with the header of that frame
C19_Witness ==
    /\ pc = "idle"
    /\ chunks >= 1
    /\ bufBefore # <<>>
    /\ HasTagReadHeader(bufBefore)
    /\ currentDataStream = bufBefore \o decodedValue
    /\ HasTagReadHeader(currentDataStream)

\* C20: when no write characteristic is supplied, a trigger-pushed or trigger-released
\* notification performs no transport write and raises no error, while the flush
\* takes place as it does with a write characteristic: the buffer is handed to the
\* extractor, the records of its payload are emitted, and the buffer is empty
\* afterwards. The command is still handed to SendCommand, which returns at once.
C20_NoWriteChannel ==
    (call = "processCS108Data"
        /\ ~writeCharacteristic
        /\ FrameHasDestination(DESTINATION_NOTIFICATION)
        /\ FramePayload \in {NOTIFICATION_TRIGGER_PUSHED, NOTIFICATION_TRIGGER_RELEASED}) =>
        /\ sent = <<>>
        /\ ~raised
        /\ pc \in {"switch", "idle"} =>
              /\ currentDataStream = <<>>
              /\ flushed = IF bufBefore = <<>> THEN NoFlush ELSE bufBefore
              /\ emitted = IF bufBefore = <<>> THEN <<>>
                           ELSE FlushLog(substringFrom(bufBefore, TagReadPayloadOffset), <<>>)
        /\ pc = "idle" => commands = ExpectedCommands /\ commands # <<>>

\* C20 witness: without a write characteristic a trigger-pushed notification has
\* flushed a buffered batch, and nothing was written
C20_Witness ==
    /\ call = "processCS108Data"
    /\ ~writeCharacteristic
    /\ pc = "idle"
    /\ FramePayload = NOTIFICATION_TRIGGER_PUSHED
    /\ bufBefore # <<>>
    /\ emitted # <<>>
    /\ currentDataStream = <<>>
    /\ commands = <<START_INVENTORY>>
    /\ sent = <<>>

=============================================================================
